---------------------------- MODULE Spec2Model ----------------------------
(***************************************************************************)
(* process_trades_for_laskuri (trades_to_laskuri.py; the same engine is    *)
(* lines 84-176 of trades_to_laskuri_xl.py): one call reads the trades     *)
(* file, keeps the rows of one coin, formats them, accumulates the running *)
(* balance in a first loop, matches sales against purchase lots in FIFO    *)
(* order in a second loop, and writes the result rows.                     *)
(*                                                                         *)
(* Numbers.  The program computes in floats read from decimal text.  The   *)
(* model is exact fixed point: a number of the input (vol, price, cost,    *)
(* fee) and every quantity is an integer count of TENTHS of the last       *)
(* digit a format keeps, so an input can carry one digit more than the     *)
(* format and rounding is a real operation.  A formatted string is the     *)
(* integer count of last-digit units it prints.  Money computed inside the *)
(* Sell branch (products of a quantity and a price, the deemed cost) is    *)
(* counted in THOUSANDTHS, which holds every product exactly.  Float       *)
(* representation error is not modelled.                                   *)
(***************************************************************************)
EXTENDS Integers, Sequences, FiniteSets, TLC

\* Largest number of rows of the trades file.
MaxRows == 3
\* Largest quantity (vol) of a row, in whole units.
MaxVol == 2
\* Largest number of rows of a file of purchases and sales only.
MaxFifoRows == 4
\* Largest number of rows of a file that holds the trades of two coins.
MaxAssetRows == 3

\* Input numbers carry one decimal digit more than the formats keep.
Tenth == 10
\* Thousandths of a currency unit per tenth (money of the Sell branch).
PerTenth == 100
\* Thousandths per whole currency unit.
Thousand == 1000
\* price_per_unit * 0.2 * amount: 0.2 is two tenths.
DeemedRateTenths == 2

VARIABLES
    trades,                  \* the trades file
    coin,                    \* the coin argument of the call
    pc,                      \* position of the call
    converted_data,          \* the data frame built at lines 25-46
    idx,                     \* row the running loop handles next
    currency_remaining,      \* running balance (tenths)
    currency_remaining_list, \* the balances recorded by the first loop
    purchase_queue,          \* open lots, head first
    sell,                    \* locals of the last Sell branch
    iterations,              \* iterations of the matching loop so far
    output,                  \* the rows written to the processed file
    returned,                \* what the call returned
    todo,                    \* the coins the caller has still to process
    earlier,                 \* the files written by the calls before this one
    other                    \* the locals of a second call that is not running

vars == << trades, coin, pc, converted_data, idx, currency_remaining,
           currency_remaining_list, purchase_queue, sell, iterations,
           output, returned, todo, earlier, other >>

\* The trades file: whether the path exists, and its rows.
NoFile == [ exists |-> FALSE, rows |-> << >> ]
File(rows) == [ exists |-> TRUE, rows |-> rows ]
Empty == << >>

-----------------------------------------------------------------------------
\* Formatting and parsing

Min(a, b) == IF a <= b THEN a ELSE b
Max(a, b) == IF a >= b THEN a ELSE b

\* f"{x:.Nf}": x counted in 1/step of the last kept digit, rounded to the
\* nearest unit, a tie to the even neighbour.
RoundTo(x, step) ==
    LET q == x \div step
        r == x % step
    IN  IF 2 * r < step THEN q
        ELSE IF 2 * r > step THEN q + 1
        ELSE IF q % 2 = 0 THEN q ELSE q + 1

\* f"{x:.8f}" of a quantity counted in tenths.
FormatAmount(x) == RoundTo(x, Tenth)
\* f"{x:.2f} EUR" of a price or total counted in tenths.
FormatCurrency(x) == RoundTo(x, Tenth)
\* f"{x:.2f} EUR" of money counted in thousandths.
FormatMoney(x) == RoundTo(x, Thousand)
\* float(s.replace(',', '.')): the value of a formatted string, in tenths.
ParseFloat(s) == s * Tenth
\* pd.to_datetime(t).dt.strftime('%d.%m.%Y %H:%M'): seconds are dropped.
FormatTime(t) == t \div 60

\* Variant: every type but sell is taken for a purchase.
EventOfAnyAsBuy(type) == IF type = "sell" THEN "Myynti" ELSE "Osto"

\* coin_data['type'].map({'buy': 'Osto', 'sell': 'Myynti'}).
EventOf(type) ==
    IF type = "buy" THEN "Osto"
    ELSE IF type = "sell" THEN "Myynti"
    ELSE "NaN"

\* dataset['pair'].str.contains(coin): a pair is the pair of its assets.
PairContains(pair, c) == \E k \in 1..Len(pair) : pair[k] = c

-----------------------------------------------------------------------------
\* The rows of the data frame (lines 25-46)

\* One row of converted_data, with the helper column amount_numeric.
ConvertRow(r) ==
    [ time           |-> FormatTime(r.time),
      event          |-> EventOf(r.type),
      amount         |-> FormatAmount(r.vol),
      price          |-> FormatCurrency(r.price),
      total          |-> FormatCurrency(r.cost),
      fee            |-> r.fee,
      remaining1     |-> r.vol,
      purchase       |-> Empty,
      profit         |-> Empty,
      remaining2     |-> Empty,
      amount_numeric |-> ParseFloat(FormatAmount(r.vol)),
      currency_remaining |-> 0 ]

\* dataset[dataset['pair'].str.contains(coin, na=False)]
CoinData(dataset, c) == SelectSeq(dataset, LAMBDA r : PairContains(r.pair, c))

ConvertedData(dataset, c) ==
    LET coin_data == CoinData(dataset, c)
    IN  [ i \in 1..Len(coin_data) |-> ConvertRow(coin_data[i]) ]

-----------------------------------------------------------------------------
\* Step 2: the running balance (lines 49-63)

\* Variant: the balance stops at 0.
BalanceAfterNeverNegative(event, amount, remaining) ==
    IF event = "Osto" THEN remaining + amount
    ELSE IF event = "Myynti" THEN Max(remaining - amount, 0)
    ELSE remaining

\* Variant: a sale is left out of the balance.
BalanceAfterPurchasesOnly(event, amount, remaining) ==
    IF event = "Osto" THEN remaining + amount ELSE remaining

BalanceAfter(event, amount, remaining) ==
    IF event = "Osto" THEN remaining + amount
    ELSE IF event = "Myynti" THEN remaining - amount
    ELSE remaining

-----------------------------------------------------------------------------
\* Steps 3-5: FIFO matching and the gain of a sale (lines 66-118)

\* Variant: the queue is not emptied.
StaleQueue(stale) == stale

\* purchase_queue = [] (line 66); the argument is what the name held before.
FreshQueue(stale) == << >>

\* purchase_queue.append({'remaining': amount, 'price': price_per_unit})
NewLot(amount, price_per_unit) == [ remaining |-> amount, price |-> price_per_unit ]
\* Variant: the lot is put at the head.
PrependLot(queue, lot) == << lot >> \o queue

AppendLot(queue, lot) == Append(queue, lot)

\* Variant: the newest lot is taken.
NewestLot(queue) == queue[Len(queue)]

\* purchase = purchase_queue[0]
NextLot(queue) == queue[1]

\* Variant: at most one unit is used in an iteration.
UsedOneUnit(remaining_amount, lot_remaining) ==
    Min(Min(remaining_amount, lot_remaining), Tenth)

\* Variant: the whole lot is used whatever is asked.
UsedWholeLot(remaining_amount, lot_remaining) == lot_remaining

\* used_amount = min(remaining_amount, purchase['remaining'])
UsedAmount(remaining_amount, lot_remaining) == Min(remaining_amount, lot_remaining)

\* Variant: the price of one unit, whatever was used.
LotCostOfOneUnit(used_amount, price) == price * PerTenth

\* used_amount * purchase['price'], in thousandths.
LotCost(used_amount, price) == used_amount * price * Tenth

\* Variant: a lot is dropped when one unit or less is left of it.
LotSpentWhenLow(lot_remaining) == lot_remaining <= Tenth

\* Variant: a lot is dropped as soon as it is touched.
LotAlwaysSpent(lot_remaining) == TRUE

\* if purchase['remaining'] <= 0: purchase_queue.pop(0)
LotSpent(lot_remaining) == lot_remaining <= 0

\* One iteration of the while loop (lines 88-95).
MatchOne(m) ==
    LET purchase    == NextLot(m.queue)
        used_amount == UsedAmount(m.remaining_amount, purchase.remaining)
        left        == purchase.remaining - used_amount
        rest        == Tail(m.queue)
    IN  [ queue            |-> IF LotSpent(left) THEN rest
                               ELSE << [purchase EXCEPT !.remaining = left] >> \o rest,
          remaining_amount |-> m.remaining_amount - used_amount,
          purchase_cost    |-> m.purchase_cost + LotCost(used_amount, purchase.price),
          iterations       |-> m.iterations + 1,
          used             |-> Append(m.used, [ amount |-> used_amount,
                                                price  |-> purchase.price ]) ]

\* while remaining_amount > 0 and purchase_queue (line 87).
RECURSIVE MatchLots(_)
MatchLots(m) ==
    IF m.remaining_amount > 0 /\ m.queue # << >>
    THEN MatchLots(MatchOne(m))
    ELSE m

\* Variant: the sale's fee is left out.
CostWithoutFee(purchase_cost, fee) == purchase_cost

\* cost_plus_fee = purchase_cost + fee
CostPlusFee(purchase_cost, fee) == purchase_cost + fee * PerTenth

\* deemed_acq_cost = price_per_unit * 0.2 * amount
DeemedAcqCost(price_per_unit, amount) == price_per_unit * DeemedRateTenths * amount

\* Variant: the smaller of the two costs.
SmallerCost(cost_plus_fee, deemed_acq_cost) ==
    IF cost_plus_fee <= deemed_acq_cost THEN cost_plus_fee ELSE deemed_acq_cost

\* applicable_cost = max(cost_plus_fee, deemed_acq_cost)
ApplicableCost(cost_plus_fee, deemed_acq_cost) == Max(cost_plus_fee, deemed_acq_cost)

\* profit_or_loss = total - applicable_cost
ProfitOrLoss(total, applicable_cost) == total * PerTenth - applicable_cost

\* Variant: the purchase cost is bracketed on a tie as well.
ParenthesisedOnTie(cost_plus_fee, deemed_acq_cost) ==
    IF cost_plus_fee <= deemed_acq_cost THEN "purchase" ELSE "deemed"

\* The parentheses of the combined string (lines 109-112).
Parenthesised(cost_plus_fee, deemed_acq_cost) ==
    IF cost_plus_fee < deemed_acq_cost THEN "purchase" ELSE "deemed"

\* The locals of the Sell branch for one row (lines 80-112).
SellLocals(row, queue, at) ==
    LET amount         == row.amount_numeric
        price_per_unit == ParseFloat(row.price)
        total          == ParseFloat(row.total)
        fee            == row.fee
        m == MatchLots([ queue |-> queue, remaining_amount |-> amount,
                         purchase_cost |-> 0, iterations |-> 0, used |-> << >> ])
        cost_plus_fee   == CostPlusFee(m.purchase_cost, fee)
        deemed_acq_cost == DeemedAcqCost(price_per_unit, amount)
        applicable_cost == ApplicableCost(cost_plus_fee, deemed_acq_cost)
    IN  [ row              |-> at,
          amount           |-> amount,
          price_per_unit   |-> price_per_unit,
          total            |-> total,
          fee              |-> fee,
          before           |-> queue,
          queue            |-> m.queue,
          used             |-> m.used,
          iterations       |-> m.iterations,
          remaining_amount |-> m.remaining_amount,
          purchase_cost    |-> m.purchase_cost,
          cost_plus_fee    |-> cost_plus_fee,
          deemed_acq_cost  |-> deemed_acq_cost,
          applicable_cost  |-> applicable_cost,
          profit_or_loss   |-> ProfitOrLoss(total, applicable_cost) ]

\* combined_str (lines 105-112): the two formatted costs and which is bracketed.
CombinedStr(s) ==
    << FormatMoney(s.purchase_cost), FormatMoney(s.deemed_acq_cost),
       Parenthesised(s.cost_plus_fee, s.deemed_acq_cost) >>

NoSell == [ row |-> 0 ]
\* No second call.
Idle == [ pc |-> "none" ]

-----------------------------------------------------------------------------
\* The written file (lines 121-130)

\* Variant: the quantity column is overwritten by the balance.
OutputRowBalanceAsAmount(r) ==
    [ time       |-> r.time,
      event      |-> r.event,
      amount     |-> FormatAmount(r.currency_remaining),
      price      |-> r.price,
      total      |-> r.total,
      fee        |-> r.fee,
      remaining1 |-> FormatAmount(r.currency_remaining),
      purchase   |-> r.purchase,
      profit     |-> r.profit,
      remaining2 |-> FormatAmount(r.currency_remaining) ]

\* The row without the helper columns, both remaining columns formatted.
OutputRow(r) ==
    [ time       |-> r.time,
      event      |-> r.event,
      amount     |-> r.amount,
      price      |-> r.price,
      total      |-> r.total,
      fee        |-> r.fee,
      remaining1 |-> FormatAmount(r.currency_remaining),
      purchase   |-> r.purchase,
      profit     |-> r.profit,
      remaining2 |-> FormatAmount(r.currency_remaining) ]

Output(data) == [ i \in 1..Len(data) |-> OutputRow(data[i]) ]

-----------------------------------------------------------------------------
\* The inputs: rows of the trades file

TheCoin == "XBT"
ThePair == << "XBT", "EUR" >>

\* Quantities on the grid of the format, in tenths.
GridVols == { v * Tenth : v \in 0..MaxVol }
\* Two purchase prices a sale can tell apart, and one sale price: against the
\* lower purchase price the deemed cost exceeds the matched cost, against the
\* higher one it does not, and with a fee the two can meet.
BuyPrices == { 1 * Tenth, 10 * Tenth }
SellPrices == { 10 * Tenth }
Fees == { 0, 1 * Tenth }

\* A row of the coin's pair whose cost is quantity * price.
Row(type, vol, price, fee) ==
    [ pair |-> ThePair, type |-> type, vol |-> vol, price |-> price,
      cost |-> (vol * price) \div Tenth, fee |-> fee ]

\* The rows a normalised trades file can hold: quantity, price and fee >= 0.
BuyRows == { Row("buy", v, p, 0) : v \in GridVols, p \in BuyPrices }
SellRows == { Row("sell", v, p, f) : v \in GridVols, p \in SellPrices, f \in Fees }
\* The rows ledger_to_trades writes for a spend/receive pair of two coins.
TradeRows == { Row("trade", 1 * Tenth, 1 * Tenth, 0) }
ValidRows == BuyRows \cup SellRows \cup TradeRows

\* Purchases and sales of a positive quantity, without fees.
FifoRows == { r \in BuyRows \cup SellRows : r.vol > 0 /\ r.fee = 0 }

\* Rows no normalised file holds: a negative quantity or a negative price.
InvalidRows ==
    { Row("buy", -1 * Tenth, 1 * Tenth, 0), Row("sell", -1 * Tenth, 1 * Tenth, 0),
      Row("buy", 1 * Tenth, -1 * Tenth, 0) }

\* A second coin in the same file, and a trade of one coin against the other.
OtherCoin == "ETH"
RowOf(pair, type, vol, price, fee) ==
    [ pair |-> pair, type |-> type, vol |-> vol, price |-> price,
      cost |-> (vol * price) \div Tenth, fee |-> fee ]
AssetRows ==
    { Row("buy", 1 * Tenth, 1 * Tenth, 0), Row("buy", 1 * Tenth, 10 * Tenth, 0),
      Row("sell", 1 * Tenth, 10 * Tenth, 0), Row("sell", 2 * Tenth, 10 * Tenth, 0),
      RowOf(<< OtherCoin, "EUR" >>, "buy", 1 * Tenth, 1 * Tenth, 0),
      RowOf(<< OtherCoin, "EUR" >>, "buy", 2 * Tenth, 10 * Tenth, 0),
      RowOf(<< OtherCoin, "EUR" >>, "sell", 1 * Tenth, 10 * Tenth, 0),
      RowOf(<< TheCoin, OtherCoin >>, "trade", 1 * Tenth, 1 * Tenth, 0) }

\* A file of n rows in time order (the normaliser sorts by time), 90 s apart.
Stamped(f) == [ i \in DOMAIN f |-> [ time |-> 90 * i ] @@ f[i] ]
\* The trades file is missing, or holds at most `most` of the rows.
FileOf(file, rows, most) ==
    \/ file = NoFile
    \/ \E n \in 0..most : \E f \in [1..n -> rows] : file = File(Stamped(f))

-----------------------------------------------------------------------------
\* The state machine

InitCall(rows, most, coins) ==
    /\ FileOf(trades, rows, most)
    /\ todo = Tail(coins)
    /\ coin = Head(coins)
    /\ pc = "call"
    /\ converted_data = << >>
    /\ idx = 1
    /\ currency_remaining = 0
    /\ currency_remaining_list = << >>
    /\ purchase_queue = << >>
    /\ sell = NoSell
    /\ iterations = 0
    /\ output = << >>
    /\ returned = "pending"
    /\ earlier = << >>
    /\ other = Idle

Init == InitCall(ValidRows, MaxRows, << TheCoin >>)

\* Lines 17-50: read the file, keep the coin's rows, build converted_data,
\* start the running balance.  A missing file ends the call (lines 133-135).
Convert ==
    /\ pc = "call"
    /\ trades.exists
    /\ converted_data' = ConvertedData(trades.rows, coin)
    /\ currency_remaining' = 0
    /\ currency_remaining_list' = << >>
    /\ idx' = 1
    /\ pc' = "balance"
    /\ sell' = NoSell
    /\ iterations' = 0
    /\ UNCHANGED << trades, coin, purchase_queue, output, returned, todo, earlier, other >>

FileNotFound ==
    /\ pc = "call"
    /\ ~ trades.exists
    /\ returned' = "None"
    /\ pc' = "done"
    /\ UNCHANGED << trades, coin, converted_data, idx, currency_remaining,
                    currency_remaining_list, purchase_queue, sell, iterations,
                    output, todo, earlier, other >>

\* One row of the first loop (lines 52-61).
BalanceRow ==
    /\ pc = "balance"
    /\ idx <= Len(converted_data)
    /\ LET row == converted_data[idx]
           remaining == BalanceAfter(row.event, row.amount_numeric, currency_remaining)
       IN  /\ currency_remaining' = remaining
           /\ currency_remaining_list' = Append(currency_remaining_list, remaining)
    /\ idx' = idx + 1
    /\ UNCHANGED << trades, coin, pc, converted_data, purchase_queue, sell,
                    iterations, output, returned, todo, earlier, other >>

\* Lines 63-66: store the balances as a column, start with an empty queue.
StartFifo ==
    /\ pc = "balance"
    /\ idx > Len(converted_data)
    /\ converted_data' =
           [ i \in 1..Len(converted_data) |->
               [ converted_data[i] EXCEPT !.currency_remaining = currency_remaining_list[i] ] ]
    /\ purchase_queue' = FreshQueue(purchase_queue)
    /\ idx' = 1
    /\ pc' = "fifo"
    /\ UNCHANGED << trades, coin, currency_remaining, currency_remaining_list,
                    sell, iterations, output, returned, todo, earlier, other >>

\* Lines 74-78: a purchase opens a lot at the tail.
FifoBuy ==
    /\ pc = "fifo"
    /\ idx <= Len(converted_data)
    /\ converted_data[idx].event = "Osto"
    /\ LET row == converted_data[idx]
       IN  purchase_queue' =
               AppendLot(purchase_queue, NewLot(row.amount_numeric, ParseFloat(row.price)))
    /\ converted_data' =
           [ converted_data EXCEPT ![idx].purchase = Empty, ![idx].profit = Empty ]
    /\ idx' = idx + 1
    /\ UNCHANGED << trades, coin, pc, currency_remaining, currency_remaining_list,
                    sell, iterations, output, returned, todo, earlier, other >>

\* Lines 79-118: a sale consumes lots from the head and records its gain.
FifoSell ==
    /\ pc = "fifo"
    /\ idx <= Len(converted_data)
    /\ converted_data[idx].event = "Myynti"
    /\ LET s == SellLocals(converted_data[idx], purchase_queue, idx)
       IN  /\ sell' = s
           /\ purchase_queue' = s.queue
           /\ iterations' = iterations + s.iterations
           /\ converted_data' =
                  [ converted_data EXCEPT
                      ![idx].purchase = CombinedStr(s),
                      ![idx].profit = << FormatMoney(s.profit_or_loss) >> ]
    /\ idx' = idx + 1
    /\ UNCHANGED << trades, coin, pc, currency_remaining, currency_remaining_list,
                    output, returned, todo, earlier, other >>

\* A row whose event is neither Osto nor Myynti takes neither branch.
FifoOther ==
    /\ pc = "fifo"
    /\ idx <= Len(converted_data)
    /\ converted_data[idx].event \notin { "Osto", "Myynti" }
    /\ idx' = idx + 1
    /\ UNCHANGED << trades, coin, pc, converted_data, currency_remaining,
                    currency_remaining_list, purchase_queue, sell, iterations,
                    output, returned, todo, earlier, other >>

\* Lines 120-132: format the balances, drop the helper columns, write the file.
Write ==
    /\ pc = "fifo"
    /\ idx > Len(converted_data)
    /\ output' = Output(converted_data)
    /\ returned' = "path"
    /\ pc' = "done"
    /\ UNCHANGED << trades, coin, converted_data, idx, currency_remaining,
                    currency_remaining_list, purchase_queue, sell, iterations,
                    todo, earlier, other >>

\* The caller calls again for its next coin.  A call has its own locals; the
\* variables keep what the last call left until the new call assigns them.
NextCall ==
    /\ pc = "done"
    /\ todo # << >>
    /\ earlier' = Append(earlier, [ coin |-> coin, output |-> output, returned |-> returned ])
    /\ coin' = Head(todo)
    /\ todo' = Tail(todo)
    /\ pc' = "call"
    /\ returned' = "pending"
    /\ output' = << >>
    /\ UNCHANGED << trades, converted_data, idx, currency_remaining,
                    currency_remaining_list, purchase_queue, sell, iterations, other >>

Next ==
    \/ Convert
    \/ FileNotFound
    \/ BalanceRow
    \/ StartFifo
    \/ FifoBuy
    \/ FifoSell
    \/ FifoOther
    \/ Write

Spec == Init /\ [][Next]_vars

\* The call runs to its end: a step that can be taken is taken.  The files
\* hold purchases and sales of one or two units, with and without a fee, and
\* a row of another type.
LiveRows ==
    { Row("buy", 1 * Tenth, 1 * Tenth, 0), Row("buy", 2 * Tenth, 10 * Tenth, 0),
      Row("sell", 1 * Tenth, 10 * Tenth, 0), Row("sell", 2 * Tenth, 10 * Tenth, 1 * Tenth) }
        \cup TradeRows
InitLive == InitCall(LiveRows, MaxRows, << TheCoin >>)
SpecLive == InitLive /\ [][Next]_vars /\ WF_vars(Next)

\* Longer files of purchases and sales only.
InitFifo == InitCall(FifoRows, MaxFifoRows, << TheCoin >>)
NextFifo ==
    \/ Convert
    \/ FileNotFound
    \/ BalanceRow
    \/ StartFifo
    \/ FifoBuy
    \/ FifoSell
    \/ Write
SpecFifo == InitFifo /\ [][NextFifo]_vars

\* The same file processed twice for the same coin.
InitTwice == InitCall(FifoRows \cup TradeRows, MaxRows, << TheCoin, TheCoin >>)
NextTwice == Next \/ NextCall
SpecTwice == InitTwice /\ [][NextTwice]_vars

\* Files whose numbers may carry a digit more than the formats keep.
RawRows ==
    { Row("buy", 14, 14, 0), Row("sell", 6, 96, 0) }
InitRaw == InitCall(FifoRows \cup TradeRows \cup RawRows, MaxRows, << TheCoin >>)
SpecRaw == InitRaw /\ [][Next]_vars

\* Files that may hold rows a normalised file never holds.
InitAny == InitCall(FifoRows \cup TradeRows \cup InvalidRows, MaxRows, << TheCoin >>)
SpecAny == InitAny /\ [][Next]_vars

-----------------------------------------------------------------------------
\* Two calls, one per coin, each with its own locals (trades_to_laskuri_xl.py)

\* The locals of the running call.
Frame ==
    [ coin |-> coin, pc |-> pc, converted_data |-> converted_data, idx |-> idx,
      currency_remaining |-> currency_remaining,
      currency_remaining_list |-> currency_remaining_list,
      purchase_queue |-> purchase_queue, sell |-> sell, iterations |-> iterations,
      output |-> output, returned |-> returned ]

\* The locals of a call that has not started.
NewCall(c) ==
    [ coin |-> c, pc |-> "call", converted_data |-> << >>, idx |-> 1,
      currency_remaining |-> 0, currency_remaining_list |-> << >>,
      purchase_queue |-> << >>, sell |-> NoSell, iterations |-> 0,
      output |-> << >>, returned |-> "pending" ]

\* Variant: the queue is one list that every call appends to and pops from.
SharedQueue(own, running) == running

\* purchase_queue is a local of the call (xl line 109): a call that goes on
\* finds its own list, whatever the call that ran meanwhile did to its own.
ResumedQueue(own, running) == own

\* The caller lets the other call run: the two calls trade places.
Switch ==
    /\ other.pc # "none"
    /\ other' = Frame
    /\ coin' = other.coin
    /\ pc' = other.pc
    /\ converted_data' = other.converted_data
    /\ idx' = other.idx
    /\ currency_remaining' = other.currency_remaining
    /\ currency_remaining_list' = other.currency_remaining_list
    /\ purchase_queue' = ResumedQueue(other.purchase_queue, purchase_queue)
    /\ sell' = other.sell
    /\ iterations' = other.iterations
    /\ output' = other.output
    /\ returned' = other.returned
    /\ UNCHANGED << trades, todo, earlier >>

\* xl lines 34-36: no row of the file is of the coin; the call returns None.
NoTrades ==
    /\ pc = "call"
    /\ trades.exists
    /\ CoinData(trades.rows, coin) = << >>
    /\ returned' = "None"
    /\ pc' = "done"
    /\ UNCHANGED << trades, coin, converted_data, idx, currency_remaining,
                    currency_remaining_list, purchase_queue, sell, iterations,
                    output, todo, earlier, other >>

\* xl lines 22-93: as Convert, for a coin that has rows.
ConvertXl ==
    /\ CoinData(trades.rows, coin) # << >>
    /\ Convert

InitAssets ==
    /\ FileOf(trades, AssetRows, MaxAssetRows)
    /\ todo = << >>
    /\ earlier = << >>
    /\ coin = TheCoin
    /\ pc = "call"
    /\ converted_data = << >>
    /\ idx = 1
    /\ currency_remaining = 0
    /\ currency_remaining_list = << >>
    /\ purchase_queue = << >>
    /\ sell = NoSell
    /\ iterations = 0
    /\ output = << >>
    /\ returned = "pending"
    /\ other = NewCall(OtherCoin)

NextAssets ==
    \/ ConvertXl
    \/ NoTrades
    \/ FileNotFound
    \/ BalanceRow
    \/ StartFifo
    \/ FifoBuy
    \/ FifoSell
    \/ FifoOther
    \/ Write
    \/ Switch

SpecAssets == InitAssets /\ [][NextAssets]_vars

-----------------------------------------------------------------------------
\* What the properties speak of

\* Sum of the quantities of the first k rows whose event is e.
RECURSIVE SumOf(_, _, _)
SumOf(data, e, k) ==
    IF k = 0 THEN 0
    ELSE SumOf(data, e, k - 1)
         + (IF data[k].event = e THEN data[k].amount_numeric ELSE 0)

Bought(data, k) == SumOf(data, "Osto", k)
Sold(data, k) == SumOf(data, "Myynti", k)

\* Sum of the remaining quantities of the open lots.
RECURSIVE QueueTotal(_)
QueueTotal(queue) ==
    IF queue = << >> THEN 0 ELSE Head(queue).remaining + QueueTotal(Tail(queue))

\* No sale among the first k rows exceeds what was open when it happened.
NoOversell(data, k) ==
    \A i \in 1..k :
        data[i].event = "Myynti"
            => data[i].amount_numeric <= Bought(data, i - 1) - Sold(data, i - 1)

Rows == Len(converted_data)
Finished == pc = "done" /\ returned = "path"
\* The last Sell branch has run (its locals are those of row sell.row).
Sold1 == sell.row # 0

-----------------------------------------------------------------------------
\* C1. Conservation: after the last event of a sequence in which no sale
\* exceeds the quantity open at its moment, the running balance is the sum of
\* the purchased quantities minus the sum of the sold ones, and it is the sum
\* of the remaining quantities of the lots still in the queue.
C1_Conservation ==
    (Finished /\ NoOversell(converted_data, Rows))
        => /\ currency_remaining = Bought(converted_data, Rows) - Sold(converted_data, Rows)
           /\ currency_remaining = QueueTotal(purchase_queue)
           /\ Rows > 0 =>
                 /\ converted_data[Rows].currency_remaining = currency_remaining
                 /\ ParseFloat(output[Rows].remaining1) = currency_remaining

\* A finished run with a purchase, a sale of part of it, and a lot left open.
C1_Witness ==
    /\ Finished
    /\ NoOversell(converted_data, Rows)
    /\ Sold(converted_data, Rows) > 0
    /\ purchase_queue # << >>
    /\ currency_remaining > 0

\* C2. FIFO order: a sale takes from the lots in queue order starting at the
\* head, and a lot contributes only when every lot before it is used up; after
\* purchases only, a sale no larger than the first purchase costs its quantity
\* at the first purchase's price.
C2_FifoOrder ==
    Sold1 =>
        /\ Len(sell.used) <= Len(sell.before)
        /\ \A j \in 1..Len(sell.used) :
              /\ sell.used[j].price = sell.before[j].price
              /\ sell.used[j].amount <= sell.before[j].remaining
              /\ j < Len(sell.used) => sell.used[j].amount = sell.before[j].remaining
        /\ ( /\ \A i \in 1..(sell.row - 1) :
                   converted_data[i].event = "Osto" /\ converted_data[i].amount_numeric > 0
             /\ sell.row > 1
             /\ sell.amount <= converted_data[1].amount_numeric )
           => sell.purchase_cost
                  = sell.amount * ParseFloat(converted_data[1].price) * Tenth

\* Purchases of one unit at two prices, then a sale of one unit.
C2_Witness ==
    /\ Sold1
    /\ sell.row = 3
    /\ converted_data[1].event = "Osto" /\ converted_data[1].amount_numeric = 1 * Tenth
    /\ converted_data[2].event = "Osto" /\ converted_data[2].amount_numeric = 1 * Tenth
    /\ converted_data[1].price < converted_data[2].price
    /\ sell.amount = 1 * Tenth
    /\ sell.purchase_cost = 1 * Thousand

\* C3. Oversell detection: a sale that finds the queue empty while quantity
\* is still unmatched ends the run in failure, without a result for the sale.
C3_OversellFails ==
    (Sold1 /\ sell.remaining_amount > 0)
        => /\ pc = "done"
           /\ returned = "None"
           /\ converted_data[sell.row].profit = Empty

\* C4. Gain of a sale: the applicable cost is the larger of the matched cost
\* plus the sale's fee and the deemed cost, a fifth of price times quantity
\* with no fee in it; the gain is the total minus the applicable cost.
C4_RealizedGain ==
    Sold1 =>
        LET row == converted_data[sell.row]
        IN  /\ sell.cost_plus_fee - sell.purchase_cost = row.fee * PerTenth
            /\ 5 * sell.deemed_acq_cost
                   = ParseFloat(row.price) * row.amount_numeric * Tenth
            /\ sell.applicable_cost >= sell.cost_plus_fee
            /\ sell.applicable_cost >= sell.deemed_acq_cost
            /\ sell.applicable_cost \in { sell.cost_plus_fee, sell.deemed_acq_cost }
            /\ sell.profit_or_loss + sell.applicable_cost = ParseFloat(row.total) * PerTenth
            /\ row.profit = << FormatMoney(sell.profit_or_loss) >>

\* A sale with a fee whose deemed cost exceeds the matched cost plus fee:
\* bought at 1, sold 2 at 10 for 20 with fee 1, applicable 4, gain 16.
C4_Witness ==
    /\ Sold1
    /\ sell.fee > 0
    /\ sell.purchase_cost > 0
    /\ sell.remaining_amount = 0
    /\ sell.deemed_acq_cost > sell.cost_plus_fee
    /\ sell.applicable_cost = 4 * Thousand
    /\ sell.profit_or_loss = 16 * Thousand

\* C5. Partial consumption: a sale smaller than the head lot's remaining
\* quantity leaves that lot at the head, reduced by exactly the sold quantity
\* and at its price, with the lots behind it untouched; a sale takes the
\* head's remainder first and what is still unmatched from the next lot.
C5_PartialConsumption ==
    (Sold1 /\ sell.before # << >>) =>
        LET head == Head(sell.before)
        IN  /\ sell.amount < head.remaining =>
                  /\ sell.queue = << [ remaining |-> head.remaining - sell.amount,
                                       price     |-> head.price ] >>
                                  \o Tail(sell.before)
                  /\ sell.purchase_cost = sell.amount * head.price * Tenth
            /\ (sell.amount > head.remaining /\ Len(sell.before) >= 2) =>
                  LET next == sell.before[2]
                      asked == sell.amount - head.remaining
                  IN  /\ Len(sell.used) >= 2
                      /\ sell.used[1] = [ amount |-> head.remaining, price |-> head.price ]
                      /\ sell.used[2] = [ amount |-> Min(asked, next.remaining),
                                          price  |-> next.price ]
                      /\ asked < next.remaining =>
                            sell.queue = << [ remaining |-> next.remaining - asked,
                                              price     |-> next.price ] >>
                                         \o Tail(Tail(sell.before))

\* Bought 2 at 1 and 2 at 10; a sale of 1 left {1 at 1} at the head; the next
\* sale of 2 takes that remainder and 1 of the second lot.
C5_Witness ==
    /\ Sold1
    /\ sell.row = 4
    /\ converted_data[1].event = "Osto" /\ converted_data[1].amount_numeric = 2 * Tenth
    /\ converted_data[2].event = "Osto" /\ converted_data[2].amount_numeric = 2 * Tenth
    /\ converted_data[3].event = "Myynti" /\ converted_data[3].amount_numeric = 1 * Tenth
    /\ sell.before = << [ remaining |-> 1 * Tenth, price |-> 1 * Tenth ],
                        [ remaining |-> 2 * Tenth, price |-> 10 * Tenth ] >>
    /\ sell.amount = 2 * Tenth
    /\ sell.purchase_cost = 11 * Thousand
    /\ sell.queue = << [ remaining |-> 1 * Tenth, price |-> 10 * Tenth ] >>

\* C6 as stated. Zero-quantity sale: its gain is 0 and the queue is as before.
C6_ZeroSellGainIsZero ==
    (Sold1 /\ sell.amount = 0)
        => /\ sell.profit_or_loss = 0
           /\ sell.queue = sell.before

\* C6 as amended. Zero-quantity sale: the queue is as before, nothing is
\* matched, and the gain is the sale's total minus its fee.
C6_ZeroSell ==
    (Sold1 /\ sell.amount = 0)
        => /\ sell.queue = sell.before
           /\ idx = sell.row + 1 => purchase_queue = sell.before
           /\ sell.used = << >>
           /\ sell.purchase_cost = 0
           /\ sell.profit_or_loss = (sell.total - sell.fee) * PerTenth
           /\ converted_data[sell.row].profit = << FormatMoney(sell.profit_or_loss) >>

\* A sale of quantity 0 with a fee, with a lot open.
C6_Witness ==
    /\ Sold1
    /\ sell.amount = 0
    /\ sell.fee > 0
    /\ sell.before # << >>
    /\ sell.profit_or_loss < 0

\* C7. Fresh state: the second run over the same file for the same coin
\* writes the rows the first one wrote.
C7_SameOutputTwice ==
    (Finished /\ earlier # << >>)
        => /\ earlier[Len(earlier)].coin = coin
           /\ earlier[Len(earlier)].output = output

\* The second run is finished; the first left a lot open, and a sale is
\* among the rows.
C7_Witness ==
    /\ Finished
    /\ Len(earlier) = 1
    /\ purchase_queue # << >>
    /\ Sold(converted_data, Rows) > 0
    /\ currency_remaining > 0

\* C8. Running balance: the balance recorded for row k is the sum of the
\* purchased minus the sum of the sold quantities of rows 1..k, and it is
\* what both remaining columns of the written row k show.
C8_RunningBalance ==
    /\ \A k \in 1..Len(currency_remaining_list) :
          currency_remaining_list[k] = Bought(converted_data, k) - Sold(converted_data, k)
    /\ pc \in { "fifo", "done" } /\ returned # "None" =>
          \A k \in 1..Rows :
              converted_data[k].currency_remaining
                  = Bought(converted_data, k) - Sold(converted_data, k)
    /\ Finished =>
          \A k \in 1..Rows :
              /\ ParseFloat(output[k].remaining1) = Bought(converted_data, k) - Sold(converted_data, k)
              /\ output[k].remaining2 = output[k].remaining1

\* Three rows written, the balance going up, down below zero and up again.
C8_Witness ==
    /\ Finished
    /\ Rows = 3
    /\ ParseFloat(output[1].remaining1) > 0
    /\ ParseFloat(output[2].remaining1) < 0
    /\ ParseFloat(output[3].remaining1) > ParseFloat(output[2].remaining1)

\* C9. One result per event, in input order: the written file has one row
\* for each row of the coin, the i-th carrying the time, direction, quantity,
\* price, total and fee of the i-th, as the formats print them.
C9_OneResultPerEvent ==
    Finished =>
        LET coin_data == CoinData(trades.rows, coin)
        IN  /\ Len(output) = Len(coin_data)
            /\ \A i \in 1..Len(coin_data) :
                  /\ output[i].time = FormatTime(coin_data[i].time)
                  /\ coin_data[i].type = "buy" => output[i].event = "Osto"
                  /\ coin_data[i].type = "sell" => output[i].event = "Myynti"
                  /\ output[i].amount = FormatAmount(coin_data[i].vol)
                  /\ output[i].price = FormatCurrency(coin_data[i].price)
                  /\ output[i].total = FormatCurrency(coin_data[i].cost)
                  /\ output[i].fee = coin_data[i].fee

\* Three different rows written: a purchase, a sale with a fee, a purchase.
C9_Witness ==
    /\ Finished
    /\ Len(output) = 3
    /\ output[1].event = "Osto" /\ output[2].event = "Myynti" /\ output[3].event = "Osto"
    /\ output[1].amount # output[3].amount
    /\ output[1].price # output[3].price
    /\ output[2].fee > 0
    /\ output[1].time < output[2].time /\ output[2].time < output[3].time

\* A row with a negative quantity or a negative price.
InvalidEvent(row) == row.amount_numeric < 0 \/ ParseFloat(row.price) < 0

\* C10. Invalid events are rejected before any mutation: neither loop gets
\* past a row with a negative quantity or price, the run does not end with a
\* written file, and no lot of the queue is negative.
C10_InvalidRejected ==
    /\ \A i \in 1..Rows :
          InvalidEvent(converted_data[i])
              => /\ ~ (pc \in { "balance", "fifo" } /\ idx > i)
                 /\ ~ Finished
    /\ \A j \in 1..Len(purchase_queue) :
          purchase_queue[j].remaining >= 0 /\ purchase_queue[j].price >= 0

-----------------------------------------------------------------------------
\* The queue that the first k rows of data leave when they are processed
\* alone, starting from an empty queue.
RECURSIVE QueueAfter(_, _)
QueueAfter(data, k) ==
    IF k = 0 THEN << >>
    ELSE LET q   == QueueAfter(data, k - 1)
             row == data[k]
         IN  IF row.event = "Osto"
             THEN Append(q, [ remaining |-> row.amount_numeric,
                              price     |-> ParseFloat(row.price) ])
             ELSE IF row.event = "Myynti" THEN SellLocals(row, q, k).queue
             ELSE q

\* The call with locals f has the rows of its own coin and nothing else in
\* its data, its queue and its results.
CallAlone(f) ==
    LET own  == CoinData(trades.rows, f.coin)
        data == f.converted_data
    IN  /\ (f.pc = "done" /\ f.returned = "None" /\ trades.exists) => own = << >>
        /\ (f.pc \in { "balance", "fifo", "done" } /\ f.returned # "None") =>
              /\ Len(data) = Len(own)
              /\ \A i \in 1..Len(own) :
                    /\ data[i].time = FormatTime(own[i].time)
                    /\ data[i].amount = FormatAmount(own[i].vol)
                    /\ data[i].event = EventOf(own[i].type)
              /\ \A k \in 1..Len(f.currency_remaining_list) :
                    f.currency_remaining_list[k] = Bought(data, k) - Sold(data, k)
              /\ f.pc = "fifo" => f.purchase_queue = QueueAfter(data, f.idx - 1)
              /\ f.pc = "done" =>
                    /\ f.purchase_queue = QueueAfter(data, Len(data))
                    /\ \A k \in 1..Len(data) :
                          /\ data[k].event = "Myynti" =>
                                data[k].profit =
                                    << FormatMoney(SellLocals(data[k], QueueAfter(data, k - 1), k).profit_or_loss) >>
                          /\ data[k].event # "Myynti" => data[k].profit = Empty
                    /\ Len(f.output) = Len(data)

\* C11. Asset isolation: whatever the order and the interleaving of the two
\* coins' calls, each call's rows, balances, queue and results are those of
\* its own coin's rows processed alone; a call that fails (no rows of its
\* coin) leaves the other as it is.
C11_AssetIsolation == CallAlone(Frame) /\ CallAlone(other)

\* Both calls are stopped inside the matching loop, each with an open lot of
\* its own.
C11_Witness ==
    /\ pc = "fifo" /\ other.pc = "fifo"
    /\ idx > 1 /\ other.idx > 1
    /\ purchase_queue # << >> /\ other.purchase_queue # << >>
    /\ purchase_queue # other.purchase_queue

\* C12. Rounding only at presentation: the quantity, price and total that the
\* loops read are those of the input at full precision.
C12_FullPrecision ==
    /\ (pc \in { "balance", "fifo", "done" } /\ returned # "None") =>
          LET own == CoinData(trades.rows, coin)
          IN  \A i \in 1..Rows :
                  /\ converted_data[i].amount_numeric = own[i].vol
                  /\ ParseFloat(converted_data[i].price) = own[i].price
                  /\ ParseFloat(converted_data[i].total) = own[i].cost
    /\ Sold1 =>
          LET own == CoinData(trades.rows, coin)
          IN  /\ sell.amount = own[sell.row].vol
              /\ 5 * sell.deemed_acq_cost = own[sell.row].price * own[sell.row].vol * Tenth

\* C13. Tie-break: when the matched cost plus fee equals the deemed cost the
\* matched cost is the applicable one and is shown without brackets; the
\* deemed cost is chosen, and the matched cost bracketed, only when the
\* matched cost plus fee is strictly smaller.
C13_TieBreak ==
    Sold1 =>
        LET shown == converted_data[sell.row].purchase
        IN  /\ shown[1] = FormatMoney(sell.purchase_cost)
            /\ shown[2] = FormatMoney(sell.deemed_acq_cost)
            /\ sell.cost_plus_fee = sell.deemed_acq_cost =>
                  /\ shown[3] = "deemed"
                  /\ sell.applicable_cost = sell.cost_plus_fee
            /\ shown[3] = "purchase" <=> sell.cost_plus_fee < sell.deemed_acq_cost
            /\ sell.cost_plus_fee < sell.deemed_acq_cost =>
                  sell.applicable_cost = sell.deemed_acq_cost
            /\ sell.cost_plus_fee >= sell.deemed_acq_cost =>
                  sell.applicable_cost = sell.cost_plus_fee

\* Bought 1 at 1, sold 1 at 10 with fee 1: matched cost plus fee 2, deemed 2.
C13_Witness ==
    /\ Sold1
    /\ sell.fee > 0
    /\ sell.purchase_cost > 0
    /\ sell.cost_plus_fee = sell.deemed_acq_cost
    /\ sell.cost_plus_fee = 2 * Thousand

\* One step of the queue: nothing, a lot more at the tail, or lots taken from
\* the head by the sale of this step: the lots removed were used in full, the
\* new head is the next lot at its price, reduced by what the sale used of it
\* and not to 0, and the lots behind it are as they were.
LotsStep ==
    LET q  == purchase_queue
        q2 == purchase_queue'
        n  == Len(purchase_queue)
        n2 == Len(purchase_queue')
    IN  /\ \A j \in 1..n2 : q2[j].remaining >= 0
        /\ \/ q2 = q
           \/ n2 = n + 1 /\ SubSeq(q2, 1, n) = q
           \/ /\ n2 <= n
              /\ sell'.row = idx
              /\ LET k == n - n2
                 IN  /\ \A j \in 1..k :
                           /\ j <= Len(sell'.used)
                           /\ sell'.used[j].amount = q[j].remaining
                     /\ n2 > 0 =>
                           /\ q2[1].price = q[k + 1].price
                           /\ q2[1].remaining <= q[k + 1].remaining
                           /\ Tail(q2) = SubSeq(q, k + 2, n)
                           /\ q2[1].remaining < q[k + 1].remaining =>
                                 /\ q2[1].remaining > 0
                                 /\ Len(sell'.used) = k + 1
                                 /\ sell'.used[k + 1].amount
                                        = q[k + 1].remaining - q2[1].remaining

\* C14. Lot lifecycle: a lot's remaining quantity is never negative and never
\* grows, its price never changes, it leaves the queue in the step of the sale
\* that brings it to 0, and a lot that left is not put back.
C14_LotLifecycle == [][LotsStep]_vars

\* A sale has used up the first lot and part of the second, which is the head.
C14_Witness ==
    /\ Sold1
    /\ pc = "fifo"
    /\ idx = sell.row + 1
    /\ Len(sell.before) = 2
    /\ Len(sell.used) = 2
    /\ Len(purchase_queue) = 1
    /\ purchase_queue[1].price = sell.before[2].price
    /\ purchase_queue[1].remaining > 0
    /\ purchase_queue[1].remaining < sell.before[2].remaining

\* The step of a purchase row: one lot of the row's quantity and price more at
\* the tail, the lots before it as they were, no cost or gain on the row.
BuyStep ==
    /\ (pc = "fifo" /\ idx <= Rows /\ CoinData(trades.rows, coin)[idx].type = "buy") =>
          /\ purchase_queue' =
                 Append(purchase_queue,
                        [ remaining |-> converted_data[idx].amount_numeric,
                          price     |-> ParseFloat(converted_data[idx].price) ])
          /\ converted_data'[idx].purchase = Empty
          /\ converted_data'[idx].profit = Empty
          /\ sell' = sell
    /\ (pc' = "done" /\ returned' = "path") =>
          \A i \in 1..Len(output') :
              output'[i].event = "Osto"
                  => output'[i].purchase = Empty /\ output'[i].profit = Empty

\* C15. Buy effect: a purchase appends exactly one lot {quantity, price} at
\* the tail, leaves the lots already queued as they are, and its result row
\* carries no cost and no gain.
C15_BuyEffect == [][BuyStep]_vars

\* A purchase has just put a second, different lot behind the first.
C15_Witness ==
    /\ pc = "fifo"
    /\ idx > 2
    /\ converted_data[idx - 1].event = "Osto"
    /\ Len(purchase_queue) = 2
    /\ purchase_queue[1] # purchase_queue[2]
    /\ purchase_queue[2] = [ remaining |-> converted_data[idx - 1].amount_numeric,
                             price     |-> ParseFloat(converted_data[idx - 1].price) ]

\* Number of purchase and sale rows among the first k rows.
RECURSIVE TradesIn(_, _)
TradesIn(data, k) ==
    IF k = 0 THEN 0
    ELSE TradesIn(data, k - 1)
         + (IF data[k].event \in { "Osto", "Myynti" } THEN 1 ELSE 0)

\* Every iteration of the last sale's loop used its lot in full, which removes
\* it, or was the last one and left nothing to match.
LoopProgress ==
    Sold1 =>
        \A j \in 1..Len(sell.used) :
            /\ j <= Len(sell.before)
            /\ \/ sell.used[j].amount = sell.before[j].remaining
               \/ j = Len(sell.used) /\ sell.remaining_amount = 0

\* The iterations so far are no more than the purchases and sales so far.
IterationBound ==
    pc \in { "fifo", "done" } /\ returned # "None"
        => iterations <= TradesIn(converted_data, Min(idx - 1, Rows))

\* C16. Termination: the call ends for every file; every iteration of the
\* matching loop removes the head lot or brings the quantity still to match to
\* 0, and the iterations of a run are at most its purchases plus its sales.
C16_Termination == [](LoopProgress /\ IterationBound) /\ <>(pc = "done")

\* A finished run whose sale went twice round the loop and emptied two lots.
C16_Witness ==
    /\ Finished
    /\ Sold1
    /\ iterations = 2
    /\ Len(sell.used) = 2
    /\ sell.used[1].amount > 0
    /\ sell.used[2].amount > 0

\* The rows of purchases among the first k rows, in the order of the file.
RECURSIVE BuysIn(_, _)
BuysIn(data, k) ==
    IF k = 0 THEN << >>
    ELSE IF data[k].event = "Osto" THEN Append(BuysIn(data, k - 1), k)
         ELSE BuysIn(data, k - 1)

\* C17. Only the head lot can be partly used: between rows (quantities above
\* 0) the queue is the last purchases processed, in the order of the file,
\* each lot at its purchase's price; every lot behind the head still has the
\* whole quantity of its purchase, the head has some of it.
C17_OnlyHeadPartial ==
    (pc \in { "fifo", "done" } /\ returned # "None") =>
        LET buys == BuysIn(converted_data, Min(idx - 1, Rows))
            n    == Len(purchase_queue)
            b    == Len(buys)
        IN  /\ n <= b
            /\ \A j \in 1..n :
                   LET row == converted_data[buys[b - n + j]]
                       lot == purchase_queue[j]
                   IN  /\ lot.price = ParseFloat(row.price)
                       /\ j > 1 => lot.remaining = row.amount_numeric
                       /\ j = 1 => lot.remaining > 0 /\ lot.remaining <= row.amount_numeric

\* A sale has taken part of the head lot and a whole lot waits behind it.
C17_Witness ==
    /\ pc = "fifo"
    /\ Sold1
    /\ idx = sell.row + 1
    /\ Len(purchase_queue) = 2
    /\ purchase_queue[1].remaining > 0
    /\ purchase_queue[1].remaining < sell.before[1].remaining
    /\ purchase_queue[1].price # purchase_queue[2].price
    /\ purchase_queue[2] = sell.before[2]

\* Sums over the lots a sale touched: the quantities, and quantity times price.
RECURSIVE UsedTotal(_)
UsedTotal(used) ==
    IF used = << >> THEN 0 ELSE Head(used).amount + UsedTotal(Tail(used))

RECURSIVE UsedValue(_)
UsedValue(used) ==
    IF used = << >> THEN 0
    ELSE Head(used).amount * Head(used).price + UsedValue(Tail(used))

\* C18. After the matching loop of a sale nothing is left to match or the
\* queue is empty; the open total has dropped by min(quantity sold, total open
\* before), and the matched cost is the sum over the lots touched, taken from
\* the head in order, of quantity used times the lot's price.
C18_SellMatching ==
    Sold1 =>
        LET open == QueueTotal(sell.before)
        IN  /\ sell.remaining_amount = 0 \/ sell.queue = << >>
            /\ open - QueueTotal(sell.queue) = Min(sell.amount, open)
            /\ UsedTotal(sell.used) = Min(sell.amount, open)
            /\ Len(sell.used) <= Len(sell.before)
            /\ \A j \in 1..Len(sell.used) : sell.used[j].price = sell.before[j].price
            /\ Tenth * Tenth * sell.purchase_cost = Thousand * UsedValue(sell.used)
            /\ idx = sell.row + 1 => purchase_queue = sell.queue

\* A sale of 2 took a whole lot and part of the next, at another price.
C18_Witness ==
    /\ Sold1
    /\ sell.amount = 2 * Tenth
    /\ Len(sell.used) = 2
    /\ sell.used[1].price # sell.used[2].price
    /\ sell.used[2].amount > 0
    /\ sell.remaining_amount = 0
    /\ sell.queue # << >>

\* The balance recorded after the first k rows (0 before the first).
BalanceAt(k) == IF k = 0 THEN 0 ELSE currency_remaining_list[k]

\* C19. The running balance never exceeds the open-lot total: after every
\* prefix of the rows the balance is at most the sum of the remaining
\* quantities of the queue, and they are equal exactly when no sale so far
\* exceeded what was open at its moment (so after an oversell they stay apart).
C19_BalanceBelowOpen ==
    (pc \in { "fifo", "done" } /\ returned # "None") =>
        LET k == Min(idx - 1, Rows)
        IN  /\ BalanceAt(k) <= QueueTotal(purchase_queue)
            /\ BalanceAt(k) = QueueTotal(purchase_queue) <=> NoOversell(converted_data, k)

\* Bought, sold more than was open, bought again: the balance is below the
\* open total, which is above 0.
C19_Witness ==
    /\ pc = "fifo"
    /\ idx = 4
    /\ ~ NoOversell(converted_data, 2)
    /\ converted_data[3].event = "Osto"
    /\ QueueTotal(purchase_queue) > 0
    /\ BalanceAt(3) < QueueTotal(purchase_queue)
    /\ BalanceAt(2) < 0

\* The step of a row whose type is neither buy nor sell: the balance loop
\* records the balance as it was, the matching loop leaves the queue, the
\* sale record and the row's cost and gain alone; the written row is there,
\* with empty cost and gain and the balance of the row before it.
OtherStep ==
    LET own == CoinData(trades.rows, coin)
    IN  /\ (pc \in { "balance", "fifo" } /\ idx <= Rows
               /\ own[idx].type \notin { "buy", "sell" }) =>
              /\ purchase_queue' = purchase_queue
              /\ currency_remaining' = currency_remaining
              /\ sell' = sell
              /\ pc = "balance" =>
                    currency_remaining_list'
                        = Append(currency_remaining_list, currency_remaining)
              /\ pc = "fifo" =>
                    /\ currency_remaining_list' = currency_remaining_list
                    /\ converted_data'[idx].purchase = Empty
                    /\ converted_data'[idx].profit = Empty
        /\ (pc' = "done" /\ returned' = "path") =>
              /\ Len(output') = Len(own)
              /\ \A i \in 1..Len(own) :
                    own[i].type \notin { "buy", "sell" } =>
                        /\ output'[i].purchase = Empty
                        /\ output'[i].profit = Empty
                        /\ output'[i].remaining1
                               = IF i = 1 THEN FormatAmount(0) ELSE output'[i - 1].remaining1

\* C20. A row whose type is neither buy nor sell (the "trade" rows of a
\* spend/receive pair) still gives one result row, changes neither the
\* running balance nor the queue, and its cost and gain columns stay empty.
C20_OtherEvents == [][OtherStep]_vars

\* Written: a purchase, a "trade" row, a sale; the trade row shows the balance
\* of the purchase and the lot was still there for the sale.
C20_Witness ==
    /\ Finished
    /\ Rows = 3
    /\ CoinData(trades.rows, coin)[1].type = "buy"
    /\ CoinData(trades.rows, coin)[2].type = "trade"
    /\ CoinData(trades.rows, coin)[3].type = "sell"
    /\ CoinData(trades.rows, coin)[2].vol > 0
    /\ ParseFloat(output[1].remaining1) > 0
    /\ output[2].remaining1 = output[1].remaining1
    /\ output[2].purchase = Empty
    /\ Len(sell.used) = 1
    /\ sell.used[1].amount > 0

=============================================================================
